---- MODULE Spec2Model ----
(***************************************************************************)
(* A model of the POP3 client of src/pop3.go: one Client over one          *)
(* connection, the server an arbitrary sender of lines.                    *)
(*                                                                         *)
(* A line is a sequence of one-character strings, so that the code's       *)
(* string handling (SplitN, Fields, HasPrefix, Atoi, indexing) is          *)
(* modelled by what it does.  A command written by the client is the       *)
(* sequence of its space-separated words (the CRLF is implicit).           *)
(*                                                                         *)
(* Every handler is split at its blocking reads only: an action is one     *)
(* ReadLine of the handler together with all the code that runs up to the  *)
(* handler's next ReadLine (or its return).                                *)
(***************************************************************************)
EXTENDS Integers, Sequences, FiniteSets, TLC

VARIABLES
    pc,        \* where the caller is: "idle", "panic", "noclient", or a handler's pending read
    closed,    \* c.conn.Close() has been called
    buffered,  \* number of complete lines held in c.bin beyond those consumed
    touched,   \* conn.Write or conn.Read was invoked after c.conn.Close()
    arg,       \* the arguments of the handler in progress
    sent,      \* the commands handed to conn.Write by the handler in progress, in order
    lastLine,  \* the line (or transport error) the handler's last call of Cmd read
    recv,      \* the raw lines read by the last call of ReadLines, in order
    lines,     \* the local `lines` of the last call of ReadLines
    rl,        \* the last call of ReadLines: "none", "reading", "done" (saw "."), "err"
    caps,      \* Auth's local `caps`
    nread,     \* the calls of c.bin.ReadLine made by the handler in progress
    failed,    \* the worst the handler in progress has read: "none", "status", "transport"
    ret        \* what the last handler returned

vars == <<pc, closed, buffered, touched, arg, sent, lastLine, recv, lines, rl, caps, nread,
          failed, ret>>

----------------------------------------------------------------------------
(* Bounds of the model. *)

\* The most lines a multi-line block holds before its terminator (or error).
MaxBlock == 2

\* The most complete lines one conn.Read leaves in c.bin behind the line returned.
MaxBuffered == 1

----------------------------------------------------------------------------
(* Strings as sequences of characters. *)

SP == " "

Digits == {"0", "1", "2", "3", "4", "5", "6", "7", "8", "9"}

DigitVal(c) ==
    CASE c = "0" -> 0 [] c = "1" -> 1 [] c = "2" -> 2 [] c = "3" -> 3
      [] c = "4" -> 4 [] c = "5" -> 5 [] c = "6" -> 6 [] c = "7" -> 7
      [] c = "8" -> 8 [] c = "9" -> 9

\* strings.HasPrefix
HasPrefix(s, p) ==
    /\ Len(s) >= Len(p)
    /\ SubSeq(s, 1, Len(p)) = p

\* The index of the first sep in s, 0 when there is none.
RECURSIVE IndexFrom(_, _, _)
IndexFrom(s, sep, i) ==
    IF i > Len(s) THEN 0
    ELSE IF s[i] = sep THEN i
    ELSE IndexFrom(s, sep, i + 1)

Index(s, sep) == IndexFrom(s, sep, 1)

\* strings.SplitN(s, sep, 2): at most two pieces, cut at the first sep.
SplitN2(s, sep) ==
    LET i == Index(s, sep)
    IN  IF i = 0 THEN <<s>>
        ELSE <<SubSeq(s, 1, i - 1), SubSeq(s, i + 1, Len(s))>>

\* strings.Split(s, sep): every piece between separators, the empty ones kept.
RECURSIVE Split(_, _)
Split(s, sep) ==
    LET i == Index(s, sep)
    IN  IF i = 0 THEN <<s>>
        ELSE <<SubSeq(s, 1, i - 1)>> \o Split(SubSeq(s, i + 1, Len(s)), sep)

\* strings.Fields(s): the maximal runs of non-space characters.
Fields(s) == SelectSeq(Split(s, SP), LAMBDA f : f # <<>>)

RECURSIVE DigitsValue(_, _)
DigitsValue(s, acc) ==
    IF s = <<>> THEN acc
    ELSE DigitsValue(Tail(s), 10 * acc + DigitVal(Head(s)))

\* strconv.Atoi(s): an optional sign, then one or more decimal digits.
Atoi(s) ==
    LET signed == s # <<>> /\ Head(s) \in {"+", "-"}
        body   == IF signed THEN Tail(s) ELSE s
        ok     == body # <<>> /\ \A i \in 1..Len(body) : body[i] \in Digits
        mag    == IF ok THEN DigitsValue(body, 0) ELSE 0
    IN  [ok  |-> ok,
         val |-> IF signed /\ Head(s) = "-" THEN 0 - mag ELSE mag]

\* Join as it would be were the separator written after every line.
RECURSIVE JoinTrailing(_, _)
JoinTrailing(ls, sep) ==
    IF ls = <<>> THEN <<>>
    ELSE ls[1] \o <<sep>> \o JoinTrailing(Tail(ls), sep)

\* strings.Join(ls, "\n")
RECURSIVE Join(_, _)
Join(ls, sep) ==
    IF ls = <<>> THEN <<>>
    ELSE IF Len(ls) = 1 THEN ls[1]
    ELSE ls[1] \o <<sep>> \o Join(Tail(ls), sep)

----------------------------------------------------------------------------
(* What the server may send: any of these lines, at any time, in any order. *)

OK == <<"+", "O", "K">>
ERR == <<"-", "E", "R", "R">>
SASL == <<"S", "A", "S", "L">>
CRAMMD5 == <<"C", "R", "A", "M", "-", "M", "D", "5">>
PLAIN == <<"P", "L", "A", "I", "N">>
DOT == <<".">>

\* The challenge "ABC" in base64.
Challenge == <<"Q", "U", "J", "D">>

ServerLines ==
    { <<>>,                                         \* an empty line
      OK,                                           \* success, no text
      OK \o <<SP, "5", SP, "2", "0">>,              \* success, two numbers
      OK \o <<SP, "3">>,                            \* success, one field
      OK \o <<SP, "a", SP, "1">>,                   \* success, first field no number
      OK \o <<SP, "1", SP, "a">>,                   \* success, second field no number
      ERR \o <<SP, "n", "o">>,                      \* failure with text
      <<"+", SP>> \o Challenge,                     \* a CRAM-MD5 challenge
      DOT,                                          \* the terminator
      <<".", ".">>,                                 \* a stuffed "."
      <<".", "1", SP, "1", "0">>,                   \* a stuffed line
      <<"2", SP, "7">>,                             \* a LIST line
      SASL \o <<SP>> \o CRAMMD5 \o <<SP>> \o PLAIN, \* SASL CRAM-MD5 PLAIN
      SASL \o <<SP>> \o PLAIN,                      \* SASL PLAIN
      PLAIN }

Users == {"alice", "bob"}
Passwords == {"pw1"}
MsgIds == {1, 2}

----------------------------------------------------------------------------
(* The transport: c.conn and the bufio.Reader c.bin over it. *)

\* lastLine before Cmd has read: none is set.  after is the number of commands
\* the handler had written when the line was read.
NoLine == [err |-> FALSE, line |-> <<>>, none |-> TRUE, after |-> 0]

\* c.bin.ReadLine(): the outcomes it can have in the current state.  A line
\* held in c.bin is returned without touching c.conn; otherwise c.conn is
\* read, which fails on a closed connection, and on an open one fails or
\* brings one line and up to MaxBuffered more into c.bin.
ReadOutcomes ==
    IF buffered > 0
    THEN { [err |-> FALSE, line |-> l, left |-> buffered - 1, io |-> FALSE] :
             l \in ServerLines }
    ELSE IF closed
    THEN { [err |-> TRUE, line |-> <<>>, left |-> 0, io |-> TRUE] }
    ELSE { [err |-> TRUE, line |-> <<>>, left |-> 0, io |-> TRUE] }
         \cup { [err |-> FALSE, line |-> l, left |-> k, io |-> TRUE] :
                  l \in ServerLines, k \in 0..MaxBuffered }

\* The decimal form of a message number, as the verb %d writes it.
Itoa(n) ==
    CASE n = 0 -> "0" [] n = 1 -> "1" [] n = 2 -> "2" [] n = 3 -> "3" [] n = 4 -> "4"
      [] n = 5 -> "5" [] n = 6 -> "6" [] n = 7 -> "7" [] n = 8 -> "8" [] n = 9 -> "9"

\* fmt.Fprintf's formatting: each verb of the format takes the next argument.
RECURSIVE Sprintf(_, _)
Sprintf(format, args) ==
    IF format = <<>> THEN <<>>
    ELSE IF Head(format) = "%s"
    THEN <<Head(args)>> \o Sprintf(Tail(format), Tail(args))
    ELSE IF Head(format) = "%d"
    THEN <<Itoa(Head(args))>> \o Sprintf(Tail(format), Tail(args))
    ELSE <<Head(format)>> \o Sprintf(Tail(format), args)

\* The write half of Cmd, line 68, as a handler's first write: the command
\* is handed to c.conn and the write's error is dropped; an empty format puts
\* nothing on the wire.
FirstWrite(format, args) ==
    /\ sent' = IF format = <<>> THEN <<>> ELSE <<Sprintf(format, args)>>
    /\ touched' = (touched \/ closed)

\* CmdResult as it would be were the line never split: the whole line is
\* the payload or the error text.
CmdResultWholeLine(r) ==
    IF r.err THEN [panic |-> FALSE, err |-> "transport", msg |-> <<>>, payload |-> <<>>]
    ELSE IF r.line = <<>>
    THEN [panic |-> TRUE, err |-> "panic", msg |-> <<>>, payload |-> <<>>]
    ELSE IF r.line[1] # "+"
    THEN [panic |-> FALSE, err |-> "protocol", msg |-> r.line, payload |-> <<>>]
    ELSE [panic |-> FALSE, err |-> "nil", msg |-> <<>>, payload |-> r.line]

\* The read half of Cmd, lines 69-81, on the outcome r of ReadLine:
\* what Cmd returns, or that it panics indexing an empty line.
CmdResult(r) ==
    IF r.err THEN [panic |-> FALSE, err |-> "transport", msg |-> <<>>, payload |-> <<>>]
    ELSE LET l     == r.line
             split == SplitN2(l, SP)
             last  == IF Len(split) = 2 THEN split[2] ELSE l
         IN  IF l = <<>>
             THEN [panic |-> TRUE, err |-> "panic", msg |-> <<>>, payload |-> <<>>]
             ELSE IF l[1] # "+"
             THEN [panic |-> FALSE, err |-> "protocol", msg |-> last, payload |-> <<>>]
             ELSE [panic |-> FALSE, err |-> "nil", msg |-> <<>>, payload |-> last]

\* failed after Cmd has read the outcome r as a status line: a transport
\* error (line 70) outweighs a failure status (line 78).
AfterStatus(r) ==
    IF r.err \/ failed = "transport" THEN "transport"
    ELSE IF (r.line # <<>> /\ r.line[1] # "+") \/ failed = "status" THEN "status"
    ELSE "none"

\* The bookkeeping of one ReadLine with outcome r.
Consume(r) ==
    /\ buffered' = r.left
    /\ nread' = nread + 1
    /\ failed' = AfterStatus(r)
    /\ touched' = (touched \/ (closed /\ r.io))

\* As Consume, for an action that also writes after the read.
ConsumeThenWrite(r, format, args) ==
    /\ buffered' = r.left
    /\ nread' = nread + 1
    /\ failed' = AfterStatus(r)
    /\ sent' = Append(sent, Sprintf(format, args))
    /\ touched' = (touched \/ closed)

Seen(r) == [err |-> r.err, line |-> r.line, none |-> FALSE, after |-> Len(sent)]

NoArg == [op |-> "none", username |-> "", password |-> "", msg |-> 0]

\* A handler's results: err is "nil" or the kind of the error returned, msg the
\* text of a "protocol" error; the other fields are the handler's outputs.
NoRet == [op |-> "none", err |-> "nil", msg |-> <<>>, payload |-> <<>>,
          count |-> 0, size |-> 0, msgs |-> <<>>, sizes |-> <<>>, text |-> <<>>]

Result(op, err, msg) == [NoRet EXCEPT !.op = op, !.err = err, !.msg = msg]

Return(result) ==
    /\ pc' = "idle"
    /\ ret' = result

Panic(op) ==
    /\ pc' = "panic"
    /\ ret' = Result(op, "panic", <<>>)

\* A handler is entered from the caller: its record of the call starts afresh.
Enter(a) ==
    /\ pc = "idle"
    /\ arg' = a
    /\ lastLine' = NoLine
    /\ recv' = <<>>
    /\ lines' = <<>>
    /\ rl' = "none"
    /\ caps' = <<>>
    /\ nread' = 0
    /\ failed' = "none"
    /\ ret' = NoRet
    /\ UNCHANGED <<closed, buffered>>

----------------------------------------------------------------------------
(* NewClient *)

\* After construction: NewClient has built the Client and called Cmd(""),
\* which wrote nothing and waits for the greeting.
Init ==
    /\ pc = "NewClient"
    /\ closed = FALSE
    /\ buffered = 0
    /\ touched = FALSE
    /\ arg = [NoArg EXCEPT !.op = "NewClient"]
    /\ sent = <<>>
    /\ lastLine = NoLine
    /\ recv = <<>>
    /\ lines = <<>>
    /\ rl = "none"
    /\ caps = <<>>
    /\ nread = 0
    /\ failed = "none"
    /\ ret = NoRet

\* NewClient as it would be were the Client returned whatever status the
\* greeting holds.
NewClientAnyStatus ==
    /\ pc = "NewClient"
    /\ \E r \in ReadOutcomes :
        LET c == CmdResult(r)
        IN  /\ Consume(r)
            /\ lastLine' = Seen(r)
            /\ IF c.panic THEN Panic("NewClient")
               ELSE IF c.err = "transport"
               THEN /\ pc' = "noclient"
                    /\ ret' = Result("NewClient", c.err, c.msg)
               ELSE Return(Result("NewClient", "nil", <<>>))
    /\ UNCHANGED <<closed, arg, sent, recv, lines, rl, caps>>

NewClient ==
    /\ pc = "NewClient"
    /\ \E r \in ReadOutcomes :
        LET c == CmdResult(r)
        IN  /\ Consume(r)
            /\ lastLine' = Seen(r)
            /\ IF c.panic THEN Panic("NewClient")
               ELSE IF c.err # "nil"
               THEN /\ pc' = "noclient"
                    /\ ret' = Result("NewClient", c.err, c.msg)
               ELSE Return(Result("NewClient", "nil", <<>>))
    /\ UNCHANGED <<closed, arg, sent, recv, lines, rl, caps>>

----------------------------------------------------------------------------
(* The single-line commands: Cmd itself, Dele, Noop, Rset. *)

\* The caller calls Cmd("NOOP"), Dele(msg), Noop() or Rset(): the command is written.
CmdCall ==
    \/ /\ Enter([NoArg EXCEPT !.op = "Cmd"])
       /\ FirstWrite(<<"NOOP">>, <<>>)
       /\ pc' = "Cmd"
    \/ /\ Enter([NoArg EXCEPT !.op = "Noop"])
       /\ FirstWrite(<<"NOOP">>, <<>>)
       /\ pc' = "Cmd"
    \/ /\ Enter([NoArg EXCEPT !.op = "Rset"])
       /\ FirstWrite(<<"RSET">>, <<>>)
       /\ pc' = "Cmd"
    \/ \E m \in MsgIds :
        /\ Enter([NoArg EXCEPT !.op = "Dele", !.msg = m])
        /\ FirstWrite(<<"DELE", "%d">>, <<m>>)
        /\ pc' = "Cmd"

\* Cmd reads its status line and returns; Dele, Noop and Rset return its error.
Cmd ==
    /\ pc = "Cmd"
    /\ \E r \in ReadOutcomes :
        LET c == CmdResult(r)
        IN  /\ Consume(r)
            /\ lastLine' = Seen(r)
            /\ IF c.panic THEN Panic(arg.op)
               ELSE Return([Result(arg.op, c.err, c.msg) EXCEPT
                              !.payload = IF arg.op = "Cmd" THEN c.payload ELSE <<>>])
    /\ UNCHANGED <<closed, arg, sent, recv, lines, rl, caps>>

----------------------------------------------------------------------------
(* Stat *)

StatCall ==
    /\ Enter([NoArg EXCEPT !.op = "Stat"])
    /\ FirstWrite(<<"STAT">>, <<>>)
    /\ pc' = "Stat"

\* Lines 157-166 on Cmd's payload l: what Stat returns, or that it panics
\* indexing parts.
StatResult(l) ==
    LET parts == Fields(l)
    IN  IF Len(parts) < 1 THEN [panic |-> TRUE, err |-> "panic", count |-> 0, size |-> 0]
        ELSE IF ~Atoi(parts[1]).ok
        THEN [panic |-> FALSE, err |-> "invalid", count |-> 0, size |-> 0]
        ELSE IF Len(parts) < 2
        THEN [panic |-> TRUE, err |-> "panic", count |-> 0, size |-> 0]
        ELSE IF ~Atoi(parts[2]).ok
        THEN [panic |-> FALSE, err |-> "invalid", count |-> 0, size |-> 0]
        ELSE [panic |-> FALSE, err |-> "nil",
              count |-> Atoi(parts[1]).val, size |-> Atoi(parts[2]).val]

Stat ==
    /\ pc = "Stat"
    /\ \E r \in ReadOutcomes :
        LET c == CmdResult(r)
            s == StatResult(c.payload)
        IN  /\ Consume(r)
            /\ lastLine' = Seen(r)
            /\ IF c.panic THEN Panic("Stat")
               ELSE IF c.err # "nil" THEN Return(Result("Stat", c.err, c.msg))
               ELSE IF s.panic THEN Panic("Stat")
               ELSE Return([Result("Stat", s.err, <<>>) EXCEPT
                              !.count = s.count, !.size = s.size])
    /\ UNCHANGED <<closed, arg, sent, recv, lines, rl, caps>>

----------------------------------------------------------------------------
(* List *)

ListCall ==
    \E m \in MsgIds :
        /\ Enter([NoArg EXCEPT !.op = "List", !.msg = m])
        /\ FirstWrite(<<"LIST", "%d">>, <<m>>)
        /\ pc' = "List"

\* Lines 177-181 on Cmd's payload l.
ListResult(l) ==
    LET fs == Fields(l)
    IN  IF Len(fs) < 2 THEN [panic |-> TRUE, err |-> "panic", size |-> 0]
        ELSE IF ~Atoi(fs[2]).ok THEN [panic |-> FALSE, err |-> "invalid", size |-> 0]
        ELSE [panic |-> FALSE, err |-> "nil", size |-> Atoi(fs[2]).val]

List ==
    /\ pc = "List"
    /\ \E r \in ReadOutcomes :
        LET c == CmdResult(r)
            s == ListResult(c.payload)
        IN  /\ Consume(r)
            /\ lastLine' = Seen(r)
            /\ IF c.panic THEN Panic("List")
               ELSE IF c.err # "nil" THEN Return(Result("List", c.err, c.msg))
               ELSE IF s.panic THEN Panic("List")
               ELSE Return([Result("List", s.err, <<>>) EXCEPT !.size = s.size])
    /\ UNCHANGED <<closed, arg, sent, recv, lines, rl, caps>>

----------------------------------------------------------------------------
(* Quit *)

QuitCall ==
    /\ Enter([NoArg EXCEPT !.op = "Quit"])
    /\ FirstWrite(<<"QUIT">>, <<>>)
    /\ pc' = "Quit"

\* Quit as it would be were the connection closed whatever QUIT's status.
QuitClosesAlways ==
    /\ pc = "Quit"
    /\ \E r \in ReadOutcomes :
        LET c == CmdResult(r)
        IN  /\ Consume(r)
            /\ lastLine' = Seen(r)
            /\ closed' = TRUE
            /\ IF c.panic THEN Panic("Quit")
               ELSE Return(Result("Quit", c.err, c.msg))
    /\ UNCHANGED <<arg, sent, recv, lines, rl, caps>>

Quit ==
    /\ pc = "Quit"
    /\ \E r \in ReadOutcomes :
        LET c == CmdResult(r)
        IN  /\ Consume(r)
            /\ lastLine' = Seen(r)
            /\ IF c.panic THEN Panic("Quit") /\ UNCHANGED closed
               ELSE IF c.err # "nil"
               THEN Return(Result("Quit", c.err, c.msg)) /\ UNCHANGED closed
               ELSE Return(Result("Quit", "nil", <<>>)) /\ closed' = TRUE
    /\ UNCHANGED <<arg, sent, recv, lines, rl, caps>>

----------------------------------------------------------------------------
(* ReadLines, and the handlers that read a multi-line block. *)

\* IsTerminator as it would be were a leading "." enough to end the loop.
IsTerminatorPrefix(line) == Len(line) > 0 /\ line[1] = "."

\* Line 88: the loop ends at a line equal to ".".
IsTerminator(line) == line = DOT

\* StripDot as it would be were every leading "." removed.
RECURSIVE StripEveryDot(_)
StripEveryDot(line) ==
    IF Len(line) > 0 /\ line[1] = "." THEN StripEveryDot(Tail(line)) ELSE line

\* Lines 89-91: a line that begins with "." loses that character.
StripDot(line) ==
    IF Len(line) > 0 /\ line[1] = "." THEN Tail(line) ELSE line

\* Lines 194-210 on the block's lines: ListAll's outputs, or that it panics
\* indexing fs.  msgs and sizes start as zeros, one per line.
RECURSIVE ListAllFrom(_, _, _, _)
ListAllFrom(ls, i, msgs, sizes) ==
    IF i > Len(ls)
    THEN [panic |-> FALSE, err |-> "nil", msgs |-> msgs, sizes |-> sizes]
    ELSE LET fs == Fields(ls[i])
         IN  IF Len(fs) < 1
             THEN [panic |-> TRUE, err |-> "panic", msgs |-> msgs, sizes |-> sizes]
             ELSE IF ~Atoi(fs[1]).ok
             THEN [panic |-> FALSE, err |-> "atoi", msgs |-> msgs, sizes |-> sizes]
             ELSE IF Len(fs) < 2
             THEN [panic |-> TRUE, err |-> "panic", msgs |-> msgs, sizes |-> sizes]
             ELSE IF ~Atoi(fs[2]).ok
             THEN [panic |-> FALSE, err |-> "atoi", msgs |-> msgs, sizes |-> sizes]
             ELSE ListAllFrom(ls, i + 1,
                              [msgs EXCEPT ![i] = Atoi(fs[1]).val],
                              [sizes EXCEPT ![i] = Atoi(fs[2]).val])

\* ListAllResult as it would be were m and s stored in each other's slice.
ListAllResultSwapped(ls) ==
    LET res == ListAllFrom(ls, 1, [i \in 1..Len(ls) |-> 0], [i \in 1..Len(ls) |-> 0])
    IN  [res EXCEPT !.msgs = res.sizes, !.sizes = res.msgs]

ListAllResult(ls) ==
    ListAllFrom(ls, 1, [i \in 1..Len(ls) |-> 0], [i \in 1..Len(ls) |-> 0])

\* base64.StdEncoding.EncodeToString of the passwords.
EncodeToString(password) ==
    CASE password = "pw1" -> "cHcx"
      [] password = "pw2" -> "cHcy"

Base64Alphabet ==
    {"A", "B", "C", "D", "E", "F", "G", "H", "I", "J", "K", "L", "M",
     "N", "O", "P", "Q", "R", "S", "T", "U", "V", "W", "X", "Y", "Z",
     "a", "b", "c", "d", "e", "f", "g", "h", "i", "j", "k", "l", "m",
     "n", "o", "p", "q", "r", "s", "t", "u", "v", "w", "x", "y", "z",
     "0", "1", "2", "3", "4", "5", "6", "7", "8", "9", "+", "/"}

\* Whether base64.StdEncoding.DecodeString accepts s: groups of four
\* characters of the alphabet, the last group padded with at most two "=".
DecodeOk(s) ==
    LET n   == Len(s)
        pad == IF n >= 2 /\ s[n] = "=" /\ s[n - 1] = "=" THEN 2
               ELSE IF n >= 1 /\ s[n] = "=" THEN 1 ELSE 0
    IN  /\ n % 4 = 0
        /\ \A i \in 1..(n - pad) : s[i] \in Base64Alphabet

\* Lines 129-134: the base64 form of username, a space and the hex
\* HMAC-MD5 of the decoded challenge keyed by the password.
CramResponse(username, password, chal) ==
    CASE chal = Challenge /\ username = "alice" /\ password = "pw1" ->
             "YWxpY2UgZjdmYzEwMmVlOTExNTMxYWUwOGYyOGU4YmJmMTg4YmE="
      [] chal = Challenge /\ username = "bob" /\ password = "pw1" ->
             "Ym9iIGY3ZmMxMDJlZTkxMTUzMWFlMDhmMjhlOGJiZjE4OGJh"
      [] chal = Challenge /\ username = "alice" /\ password = "pw2" ->
             "YWxpY2UgZWQ4NzczMjk3NjY0Y2MzYmVhODAyMmM1MGU3NzEzZTU="
      [] chal = Challenge /\ username = "bob" /\ password = "pw2" ->
             "Ym9iIGVkODc3MzI5NzY2NGNjM2JlYTgwMjJjNTBlNzcxM2U1"

\* Lines 108-117: the loop over caps, from entry i on.
RECURSIVE ScanCaps(_, _, _, _)
ScanCaps(cs, i, sasl, plain) ==
    IF i > Len(cs) THEN [sasl |-> sasl, plain |-> plain]
    ELSE IF HasPrefix(cs[i], SASL)
    THEN ScanCaps(cs, i + 1, Tail(Split(cs[i], SP)), plain)
    ELSE IF cs[i] = PLAIN
    THEN ScanCaps(cs, i + 1, sasl, TRUE)
    ELSE ScanCaps(cs, i + 1, sasl, plain)

\* SelectMechanism as it would be were the PLAIN flag tested first.
SelectMechanismPlainFirst(cs) ==
    LET scan == ScanCaps(cs, 1, <<>>, FALSE)
    IN  IF scan.plain THEN "PLAIN"
        ELSE IF \E i \in 1..Len(scan.sasl) : scan.sasl[i] = CRAMMD5 THEN "CRAM-MD5"
        ELSE "none"

\* Lines 118-144: the mechanism Auth goes on with.
SelectMechanism(cs) ==
    LET scan == ScanCaps(cs, 1, <<>>, FALSE)
    IN  IF \E i \in 1..Len(scan.sasl) : scan.sasl[i] = CRAMMD5 THEN "CRAM-MD5"
        ELSE IF scan.plain THEN "PLAIN"
        ELSE "none"

\* Line 141: the command of the PLAIN branch.
PlainCommand(username, password) ==
    Sprintf(<<"AUTH", "%s", "%s">>, <<username, EncodeToString(password)>>)

\* The caller calls ReadLines() itself: nothing is written.
ReadLinesCall ==
    /\ Enter([NoArg EXCEPT !.op = "ReadLines"])
    /\ sent' = <<>>
    /\ pc' = "ReadLines"
    /\ UNCHANGED touched

CapsCall ==
    /\ Enter([NoArg EXCEPT !.op = "Caps"])
    /\ FirstWrite(<<"CAPA">>, <<>>)
    /\ pc' = "CapsStatus"

AuthCall ==
    \E u \in Users, p \in Passwords :
        /\ Enter([NoArg EXCEPT !.op = "Auth", !.username = u, !.password = p])
        /\ FirstWrite(<<"CAPA">>, <<>>)
        /\ pc' = "CapsStatus"

\* Line 100, in Caps called by the caller or by Auth: Cmd("CAPA") reads its
\* status line; its result is dropped and ReadLines is entered.
CapsStatus ==
    /\ pc = "CapsStatus"
    /\ \E r \in ReadOutcomes :
        LET c == CmdResult(r)
        IN  /\ Consume(r)
            /\ lastLine' = Seen(r)
            /\ IF c.panic THEN Panic(arg.op)
               ELSE pc' = "ReadLines" /\ UNCHANGED ret
    /\ UNCHANGED <<closed, arg, sent, recv, lines, rl, caps>>

ListAllCall ==
    /\ Enter([NoArg EXCEPT !.op = "ListAll"])
    /\ FirstWrite(<<"LIST">>, <<>>)
    /\ pc' = "BlockStatus"

RetrCall ==
    \E m \in MsgIds :
        /\ Enter([NoArg EXCEPT !.op = "Retr", !.msg = m])
        /\ FirstWrite(<<"RETR", "%d">>, <<m>>)
        /\ pc' = "BlockStatus"

\* Lines 186-189 and 216-219: ListAll and Retr return Cmd's error, and enter
\* ReadLines when there is none.
BlockStatus ==
    /\ pc = "BlockStatus"
    /\ \E r \in ReadOutcomes :
        LET c == CmdResult(r)
        IN  /\ Consume(r)
            /\ lastLine' = Seen(r)
            /\ IF c.panic THEN Panic(arg.op)
               ELSE IF c.err # "nil" THEN Return(Result(arg.op, c.err, c.msg))
               ELSE pc' = "ReadLines" /\ UNCHANGED ret
    /\ UNCHANGED <<closed, arg, sent, recv, lines, rl, caps>>

\* What the caller of ReadLines does with (ls, err) up to its next read:
\* the handler returns, or Auth writes the command of the mechanism it selects.
AfterReadLines(ls, err) ==
    CASE arg.op \in {"ReadLines", "Caps"} ->
            /\ Return(Result(arg.op, err, <<>>))
            /\ UNCHANGED <<sent, caps>>
      [] arg.op = "Retr" ->
            /\ Return([Result("Retr", err, <<>>) EXCEPT !.text = Join(ls, "\n")])
            /\ UNCHANGED <<sent, caps>>
      [] arg.op = "ListAll" ->
            LET res == ListAllResult(ls)
            IN  /\ IF err # "nil" THEN Return(Result("ListAll", err, <<>>))
                   ELSE IF res.panic THEN Panic("ListAll")
                   ELSE Return([Result("ListAll", res.err, <<>>) EXCEPT
                                  !.msgs = res.msgs, !.sizes = res.sizes])
                /\ UNCHANGED <<sent, caps>>
      [] arg.op = "Auth" ->
            LET mech == SelectMechanism(ls)
            IN  /\ caps' = ls
                /\ IF mech = "CRAM-MD5"
                   THEN /\ sent' = Append(sent, Sprintf(<<"AUTH", "CRAM-MD5">>, <<>>))
                        /\ pc' = "AuthChallenge"
                        /\ UNCHANGED ret
                   ELSE IF mech = "PLAIN"
                   THEN /\ sent' = Append(sent, PlainCommand(arg.username, arg.password))
                        /\ pc' = "AuthFinal"
                        /\ UNCHANGED ret
                   ELSE /\ Return(Result("Auth", "unsupported", <<>>))
                        /\ UNCHANGED sent

\* One ReadLine of ReadLines (lines 86 and 93) and what follows it: the loop
\* body when the line is data, else ReadLines' return into its caller.
ReadLines ==
    /\ pc = "ReadLines"
    /\ \E r \in ReadOutcomes :
        /\ buffered' = r.left
        /\ nread' = nread + 1
        /\ failed' = IF r.err THEN "transport" ELSE failed
        /\ IF ~r.err /\ ~IsTerminator(r.line)
           THEN /\ Len(lines) < MaxBlock
                /\ lines' = Append(lines, StripDot(r.line))
                /\ recv' = Append(recv, r.line)
                /\ rl' = "reading"
                /\ touched' = (touched \/ (closed /\ r.io))
                /\ UNCHANGED <<pc, sent, caps, ret>>
           ELSE /\ rl' = IF r.err THEN "err" ELSE "done"
                /\ recv' = IF r.err THEN recv ELSE Append(recv, r.line)
                /\ AfterReadLines(lines, IF r.err THEN "transport" ELSE "nil")
                /\ touched' = (touched \/ (closed /\ r.io) \/ (closed /\ sent' # sent))
                /\ UNCHANGED lines
    /\ UNCHANGED <<closed, arg, lastLine>>

\* FinalStatus as it would be were Cmd's error dropped, as Caps drops it.
FinalStatusDropped(c) == Result("Auth", "nil", <<>>)

\* Lines 135-136 and 141-142: Auth returns the error of the Cmd that sent the
\* credential line.
FinalStatus(c) == Result("Auth", c.err, c.msg)

\* Lines 121-135: Cmd("AUTH CRAM-MD5") reads its status line; on a challenge
\* that decodes, the response is written.
AuthChallenge ==
    /\ pc = "AuthChallenge"
    /\ \E r \in ReadOutcomes :
        LET c == CmdResult(r)
        IN  /\ lastLine' = Seen(r)
            /\ IF c.panic THEN Consume(r) /\ Panic("Auth") /\ UNCHANGED sent
               ELSE IF c.err # "nil"
               THEN Consume(r) /\ Return(Result("Auth", c.err, c.msg)) /\ UNCHANGED sent
               ELSE IF ~DecodeOk(c.payload)
               THEN Consume(r) /\ Return(Result("Auth", "base64", <<>>)) /\ UNCHANGED sent
               ELSE /\ ConsumeThenWrite(r,
                          <<CramResponse(arg.username, arg.password, c.payload)>>, <<>>)
                    /\ pc' = "AuthFinal"
                    /\ UNCHANGED ret
    /\ UNCHANGED <<closed, arg, recv, lines, rl, caps>>

\* Lines 135-136 and 141-142: the status line of the credential line decides.
AuthFinal ==
    /\ pc = "AuthFinal"
    /\ \E r \in ReadOutcomes :
        LET c == CmdResult(r)
        IN  /\ Consume(r)
            /\ lastLine' = Seen(r)
            /\ IF c.panic THEN Panic("Auth")
               ELSE Return(FinalStatus(c))
    /\ UNCHANGED <<closed, arg, sent, recv, lines, rl, caps>>

----------------------------------------------------------------------------

Next ==
    \/ NewClient
    \/ CmdCall
    \/ Cmd
    \/ StatCall
    \/ Stat
    \/ ListCall
    \/ List
    \/ QuitCall
    \/ Quit
    \/ ReadLinesCall
    \/ CapsCall
    \/ AuthCall
    \/ CapsStatus
    \/ ListAllCall
    \/ RetrCall
    \/ BlockStatus
    \/ ReadLines
    \/ AuthChallenge
    \/ AuthFinal

Spec == Init /\ [][Next]_vars

----------------------------------------------------------------------------
(* ReadLines on its own, called by the caller of a Client that NewClient has
   returned, against a server that in the end sends "." or ends the stream. *)

\* The state NewClient leaves when the greeting is "+OK": any number of
\* lines may already be held in c.bin.
InitReadLines ==
    /\ pc = "idle"
    /\ closed = FALSE
    /\ buffered \in 0..MaxBuffered
    /\ touched = FALSE
    /\ arg = [NoArg EXCEPT !.op = "NewClient"]
    /\ sent = <<>>
    /\ lastLine = [err |-> FALSE, line |-> OK, none |-> FALSE, after |-> 0]
    /\ recv = <<>>
    /\ lines = <<>>
    /\ rl = "none"
    /\ caps = <<>>
    /\ nread = 1
    /\ failed = "none"
    /\ ret = Result("NewClient", "nil", <<>>)

NextReadLines ==
    \/ ReadLinesCall
    \/ ReadLines

\* The read that ends the loop of lines 88-94: it brings "." or an error.
LastRead == ReadLines /\ rl' \in {"done", "err"}

\* ReadLine blocks until the server's next line or the end of the stream
\* arrives; the server is assumed to send "." or to end the stream in the end.
SpecReadLines == InitReadLines /\ [][NextReadLines]_vars /\ WF_vars(LastRead)

----------------------------------------------------------------------------
(* The properties. *)

\* The text after the first space of l, or l when it holds no space.
AfterFirstSpace(l) ==
    IF \A i \in 1..Len(l) : l[i] # SP THEN l
    ELSE LET i == CHOOSE k \in 1..Len(l) :
                      l[k] = SP /\ \A j \in 1..(k - 1) : l[j] # SP
         IN  [j \in 1..(Len(l) - i) |-> l[i + j]]

\* The handler's last call of Cmd read a status line that is not empty.
ReadStatus == ~lastLine.none /\ ~lastLine.err /\ lastLine.line # <<>>

Returned(op) == pc = "idle" /\ ret.op = op

\* C1: a status line that is not empty and begins with "+" makes Cmd return
\* no error and the text after the first space (the whole line without one);
\* any other makes it return an empty payload and an error with that text.
C1_CmdClassifiesStatus ==
    (Returned("Cmd") /\ ReadStatus) =>
        IF lastLine.line[1] = "+"
        THEN /\ ret.err = "nil"
             /\ ret.payload = AfterFirstSpace(lastLine.line)
        ELSE /\ ret.err = "protocol"
             /\ ret.payload = <<>>
             /\ ret.msg = AfterFirstSpace(lastLine.line)

C1_Witness ==
    /\ Returned("Cmd")
    /\ lastLine.line = OK \o <<SP, "5", SP, "2", "0">>
    /\ ret.err = "nil"
    /\ ret.payload = <<"5", SP, "2", "0">>

\* C2: an empty status line makes Cmd return an error, and no handler
\* crashes on it.
C2_EmptyStatusRejected ==
    (~lastLine.none /\ ~lastLine.err /\ lastLine.line = <<>>) =>
        /\ pc # "panic"
        /\ Returned("Cmd") => ret.err \notin {"nil", "panic"}

\* A line as received with its byte-stuffing undone.
Unstuffed(l) == IF l # <<>> /\ Head(l) = "." THEN Tail(l) ELSE l

\* C3: ReadLines ends at the first line equal to "." and only there without
\* error; it then returns the lines received before it, in order, each line
\* that begins with "." without that one character, the others unchanged.
C3_ReadLinesUnstuffs ==
    /\ \A i \in 1..Len(recv) : recv[i] = DOT => (i = Len(recv) /\ rl = "done")
    /\ rl = "done" =>
        /\ recv # <<>>
        /\ recv[Len(recv)] = DOT
        /\ Len(lines) = Len(recv) - 1
        /\ \A i \in 1..Len(lines) : lines[i] = Unstuffed(recv[i])
    /\ (Returned("ReadLines") /\ rl = "done") => ret.err = "nil"

C3_Witness ==
    /\ Returned("ReadLines")
    /\ recv = << <<".", ".">>, <<".", "1", SP, "1", "0">>, DOT >>
    /\ lines = << <<".">>, <<"1", SP, "1", "0">> >>
    /\ ret.err = "nil"

\* Auth is past its call of Caps: the capability list is in caps.
AuthHasCaps == arg.op = "Auth" /\ rl \in {"done", "err"}

\* The mechanisms a capability entry lists after its tag.
Mechanisms(entry) ==
    LET fs == Fields(entry) IN { fs[i] : i \in 2..Len(fs) }

SaslEntries(cs) == { i \in 1..Len(cs) : HasPrefix(cs[i], SASL) }

AdvertisesPlain(cs) == \E i \in 1..Len(cs) : cs[i] = PLAIN

WroteCram == Len(sent) >= 2 /\ sent[2] = <<"AUTH", "CRAM-MD5">>

\* The one command written after CAPA is an AUTH command other than AUTH CRAM-MD5.
WrotePlain ==
    /\ Len(sent) = 2
    /\ Head(sent[2]) = "AUTH"
    /\ sent[2] # <<"AUTH", "CRAM-MD5">>

Unsupported ==
    /\ Len(sent) = 1
    /\ Returned("Auth")
    /\ ret.err = "unsupported"

\* C4 as stated: CRAM-MD5 is selected when a capability entry prefixed
\* "SASL" lists it.
C4_AnySaslEntry ==
    AuthHasCaps =>
        IF \E i \in SaslEntries(caps) : CRAMMD5 \in Mechanisms(caps[i]) THEN WroteCram
        ELSE IF AdvertisesPlain(caps) THEN WrotePlain
        ELSE Unsupported

\* C4: Auth selects CRAM-MD5 when the last capability entry prefixed "SASL"
\* lists it, even if PLAIN is advertised; otherwise the PLAIN branch if and
\* only if an entry equals "PLAIN"; otherwise it fails with the
\* no-supported-method error, having written no AUTH command.
C4_MechanismSelection ==
    AuthHasCaps =>
        LET ss == SaslEntries(caps)
            cram == /\ ss # {}
                    /\ CRAMMD5 \in Mechanisms(caps[CHOOSE i \in ss : \A j \in ss : j <= i])
        IN  IF cram THEN WroteCram
            ELSE IF AdvertisesPlain(caps) THEN WrotePlain
            ELSE Unsupported

C4_Witness ==
    /\ AuthHasCaps
    /\ rl = "done"
    /\ caps = << SASL \o <<SP>> \o CRAMMD5 \o <<SP>> \o PLAIN, PLAIN >>
    /\ WroteCram

\* C5: in the PLAIN branch the one command written is AUTH PLAIN and the
\* base64 form of the password.
C5_PlainCommandOnWire ==
    (AuthHasCaps /\ WrotePlain) =>
        sent[2] = <<"AUTH", "PLAIN", EncodeToString(arg.password)>>

\* The handler's last status line is a reply to the last command it wrote.
RepliesToLast == ~lastLine.none /\ lastLine.after = Len(sent)

CredentialSent ==
    \/ /\ Len(sent) = 3
       /\ sent[2] = <<"AUTH", "CRAM-MD5">>
       /\ Len(sent[3]) = 1
    \/ WrotePlain

\* C6: Auth returns no error only when the last status line it read begins
\* with "+" and replies to the credential line it wrote; a failure status on
\* any of its AUTH lines, and no supported mechanism, make it return an error.
C6_AuthOnlyByExchange ==
    /\ (Returned("Auth") /\ ret.err = "nil") =>
          /\ CredentialSent
          /\ RepliesToLast
          /\ ReadStatus
          /\ lastLine.line[1] = "+"
    /\ (Returned("Auth") /\ Len(sent) >= 2 /\ ReadStatus /\ lastLine.line[1] # "+") =>
          ret.err = "protocol"
    /\ (Returned("Auth") /\ Len(sent) = 1) => ret.err = "unsupported"

C6_Witness ==
    /\ Returned("Auth")
    /\ ret.err = "nil"
    /\ Len(sent) = 3
    /\ lastLine.line = OK

\* The handlers that issue a command.
CommandOps ==
    {"Cmd", "Stat", "List", "ListAll", "Retr", "Dele", "Noop", "Rset", "Auth", "Quit"}

\* C7: a command call made after the connection was closed fails with a
\* transport error.
C7_FailsAfterQuit ==
    (closed /\ touched /\ pc = "idle" /\ ret.op \in CommandOps) =>
        ret.err = "transport"

\* C8: once the connection is closed, no command writes to it or reads from it.
C8_NoUseAfterClose == closed => ~touched

\* C9: on a status line that is not empty Stat returns the first two fields
\* of the payload as numbers and no error, or an error and two zeros.
C9_StatReturns ==
    (arg.op = "Stat" /\ ReadStatus) =>
        /\ pc = "idle"
        /\ \/ /\ ret.err = "nil"
              /\ lastLine.line[1] = "+"
              /\ LET fs == Fields(AfterFirstSpace(lastLine.line))
                 IN  /\ Len(fs) >= 2
                     /\ Atoi(fs[1]) = [ok |-> TRUE, val |-> ret.count]
                     /\ Atoi(fs[2]) = [ok |-> TRUE, val |-> ret.size]
           \/ /\ ret.err # "nil"
              /\ ret.count = 0
              /\ ret.size = 0

\* C10: on a status line that is not empty List returns the second field of
\* the payload as the size and no error, or size 0 and an error.
C10_ListReturns ==
    (arg.op = "List" /\ ReadStatus) =>
        /\ pc = "idle"
        /\ \/ /\ ret.err = "nil"
              /\ lastLine.line[1] = "+"
              /\ LET fs == Fields(AfterFirstSpace(lastLine.line))
                 IN  /\ Len(fs) >= 2
                     /\ Atoi(fs[2]) = [ok |-> TRUE, val |-> ret.size]
           \/ /\ ret.err # "nil"
              /\ ret.size = 0

\* The decimal value of a field made of digits only.
RECURSIVE Number(_)
Number(f) ==
    IF f = <<>> THEN 0
    ELSE 10 * Number(SubSeq(f, 1, Len(f) - 1)) + DigitVal(f[Len(f)])

IsNumber(f) == f # <<>> /\ \A i \in 1..Len(f) : f[i] \in Digits

\* A line of a LIST block that holds two numbers as its first two fields.
TwoNumbers(l) ==
    LET fs == Fields(l)
    IN  Len(fs) >= 2 /\ IsNumber(fs[1]) /\ IsNumber(fs[2])

\* ListAll has read its block up to the terminator.
ListAllBlockRead == arg.op = "ListAll" /\ rl = "done"

\* C11: when bare LIST succeeds and every line of the block holds two
\* numbers, ListAll returns no error and two sequences as long as the block,
\* the i-th message number and size being the two fields of the i-th line.
C11_ListAllParallel ==
    (ListAllBlockRead /\ \A i \in 1..Len(lines) : TwoNumbers(lines[i])) =>
        /\ Returned("ListAll")
        /\ ret.err = "nil"
        /\ Len(ret.msgs) = Len(lines)
        /\ Len(ret.sizes) = Len(lines)
        /\ \A i \in 1..Len(lines) :
              /\ ret.msgs[i] = Number(Fields(lines[i])[1])
              /\ ret.sizes[i] = Number(Fields(lines[i])[2])

C11_Witness ==
    /\ Returned("ListAll")
    /\ recv = << <<".", "1", SP, "1", "0">>, <<"2", SP, "7">>, DOT >>
    /\ ret.msgs = <<1, 2>>
    /\ ret.sizes = <<10, 7>>

\* C12: when a line of the LIST block does not parse, ListAll returns an
\* error and two empty sequences.
C12_ListAllResetsOnFailure ==
    (ListAllBlockRead /\ \E i \in 1..Len(lines) : ~TwoNumbers(lines[i])) =>
        /\ Returned("ListAll")
        /\ ret.err # "nil"
        /\ ret.msgs = <<>>
        /\ ret.sizes = <<>>

\* The lines ls with one line feed between consecutive lines.
RECURSIVE Joined(_)
Joined(ls) ==
    IF ls = <<>> THEN <<>>
    ELSE LET front == SubSeq(ls, 1, Len(ls) - 1)
         IN  IF front = <<>> THEN ls[Len(ls)]
             ELSE Joined(front) \o <<"\n">> \o ls[Len(ls)]

\* C13: when RETR succeeds and its block is terminated, Retr returns no
\* error and the block's lines, unstuffed, with a line feed between them.
C13_RetrJoinsLines ==
    (arg.op = "Retr" /\ rl = "done") =>
        /\ Returned("Retr")
        /\ ret.err = "nil"
        /\ ret.text = Joined([i \in 1..(Len(recv) - 1) |-> Unstuffed(recv[i])])

C13_Witness ==
    /\ Returned("Retr")
    /\ recv = << <<".", ".">>, <<"2", SP, "7">>, DOT >>
    /\ ret.text = <<".", "\n", "2", SP, "7">>
    /\ ret.err = "nil"

\* C14: a transport failure at any point of Auth is what Auth returns:
\* whenever Auth has returned after a read of its call failed, its error is
\* that transport error, not "unsupported" and not nil.
C14_AuthTransportError ==
    (Returned("Auth") /\ failed = "transport") => ret.err = "transport"

\* The handler in progress has just written a command after reading the
\* status line of the command before it.
WroteNext ==
    /\ pc \in {"AuthChallenge", "AuthFinal"}
    /\ ~lastLine.none
    /\ lastLine.after = Len(sent) - 1

\* The status line last read answers CAPA.
AnswersCapa == lastLine.after = 1 /\ sent[1] = <<"CAPA">>

\* C15: a command is written only when the complete reply to the command
\* before it has been read: its status line and, for a CAPA that succeeded,
\* the capability block up to its terminator.
C15_OneOutstanding ==
    WroteNext =>
        /\ ~lastLine.err
        /\ (AnswersCapa /\ ReadStatus /\ lastLine.line[1] = "+") => rl = "done"

\* C16: within one call no command is written twice, and none is written
\* once a failure status or a transport error has been read in that call.
C16_NoRetry ==
    /\ \A i, j \in 1..Len(sent) : sent[i] = sent[j] => i = j
    /\ WroteNext => failed = "none"

\* C17: NewClient reads exactly one line; it returns a Client when that line
\* begins with "+", and an error and no Client on a transport error or a
\* greeting that is a failure status.
C17_NewClientGreeting ==
    (arg.op = "NewClient" /\ pc # "NewClient") =>
        /\ nread = 1
        /\ ~lastLine.none
        /\ pc = "idle" <=> (ReadStatus /\ lastLine.line[1] = "+")
        /\ pc = "idle" => ret.err = "nil"
        /\ (lastLine.err \/ (ReadStatus /\ lastLine.line[1] # "+")) =>
              /\ pc = "noclient"
              /\ ret.err = IF lastLine.err THEN "transport" ELSE "protocol"

C17_Witness ==
    /\ pc = "noclient"
    /\ lastLine.line = <<"-", "E", "R", "R", SP, "n", "o">>
    /\ ret.err = "protocol"
    /\ nread = 1

\* C18: a failure status in answer to CAPA, bare LIST or RETR makes Caps,
\* Auth, ListAll and Retr return that failure at once, no further line read.
C18_FailureStatusReturns ==
    (/\ arg.op \in {"Caps", "Auth", "ListAll", "Retr"}
     /\ ReadStatus
     /\ lastLine.after = 1
     /\ lastLine.line[1] # "+") =>
        /\ Returned(arg.op)
        /\ ret.err = "protocol"
        /\ nread = 1

\* ReadLines has read no line equal to "." and no error.
BlockOpen == rl \in {"none", "reading"} /\ \A i \in 1..Len(recv) : recv[i] # DOT

\* ReadLines came to its end by reading ".", the first line equal to it.
BlockComplete ==
    /\ rl = "done"
    /\ recv # <<>>
    /\ recv[Len(recv)] = DOT
    /\ \A i \in 1..(Len(recv) - 1) : recv[i] # DOT

\* ReadLines came to its end by a transport error before any ".".
BlockCutOff ==
    /\ rl = "err"
    /\ failed = "transport"
    /\ \A i \in 1..Len(recv) : recv[i] # DOT

ReadLinesRunning == pc = "ReadLines" /\ arg.op = "ReadLines"

\* ReadLines goes on exactly while it has read neither "." nor an error,
\* returns nil exactly for a block it read up to ".", and returns the
\* transport error for a block cut off before it.
ReadLinesReturnsWhen ==
    /\ ReadLinesRunning => BlockOpen
    /\ Returned("ReadLines") =>
          \/ BlockComplete /\ ret.err = "nil"
          \/ BlockCutOff /\ ret.err = "transport"

\* C19: ReadLines returns if and only if it has read a line equal to "." or
\* a transport error, without error only in the first case; and when the
\* server in the end sends "." or ends the stream, ReadLines returns.
C19_ReadLinesReturns ==
    /\ []ReadLinesReturnsWhen
    /\ ReadLinesRunning ~> Returned("ReadLines")

C19_Witness ==
    /\ Returned("ReadLines")
    /\ recv = << <<"2", SP, "7">> >>
    /\ BlockCutOff
    /\ ret.err = "transport"

\* C20: the connection is closed by Quit alone, and only in the step in
\* which Quit reads a success status and returns nil.
C20_ClosedOnlyByQuit ==
    [][closed' # closed =>
          /\ pc = "Quit"
          /\ closed' /\ ~closed
          /\ Returned("Quit")'
          /\ ret'.err = "nil"
          /\ ReadStatus'
          /\ lastLine'.line[1] = "+"]_vars

C20_Witness ==
    /\ closed
    /\ Returned("Quit")
    /\ ret.err = "nil"
    /\ lastLine.line = OK

====
